---------------------------- MODULE Spec2Model ----------------------------
(***************************************************************************)
(* Model of the environmental-chamber controller of                        *)
(* src/ENVIRO_CHAMBER/src/main_enviro.cpp (second program of the file,     *)
(* lines 330-700): setup, task_WiFi with its /get handler, task_sensor and *)
(* task_heater, and the two Share<int16_t> objects desired_temp and        *)
(* temp_reading.  The Share class itself (taskshare.h) is not among the    *)
(* sources; it is modelled from section 4.1 of the specification: a lock,  *)
(* a stored value that put overwrites and get copies out, and a            *)
(* has-been-written flag.  The stored value is kept as two bytes that are  *)
(* copied one at a time inside the critical section, so that a torn read   *)
(* is expressible.                                                         *)
(***************************************************************************)
EXTENDS Integers, Sequences, FiniteSets, TLC

VARIABLES
    sys,            \* position of setup: "boot", "aborted", "running"
    at_reset,       \* history: what the file held at the last reset, or NoFile
    file,           \* content of /inputInt.txt in SPIFFS, or NoFile
    share,          \* the two Share<int16_t> objects
    committed,      \* history: per share, the value of the last completed put
    w_pc,           \* task_WiFi: position
    yourInputInt,   \* task_WiFi: local of the loop
    s_pc,           \* task_sensor: position
    count,          \* task_sensor: patience counter of the poll loop
    sample,         \* task_sensor: the temperature last read and printed
    h_pc,           \* task_heater: position
    h_stage,        \* task_heater: position inside Share::get
    setpoint,       \* task_heater: local
    current,        \* task_heater: local
    heater_pin,     \* level of HEATER_PIN
    p_pc,           \* per share, position of a producer inside Share::put
    p_val,          \* per share, the value that producer is putting
    sp_hist,        \* history: values desired_temp held since the cycle began
    scen,           \* history: length of the matched prefix of Scenario A
    scen_cmds,      \* history: heater commands over that prefix
    http,           \* output of the last GET /get: parameter, text, diagnostic
    echo            \* enterStringWithEcho: size, count, buffer, position

vars == << sys, at_reset, file, share, committed, w_pc, yourInputInt, s_pc,
           count, sample, h_pc, h_stage, setpoint, current, heater_pin,
           p_pc, p_val, sp_hist, scen, scen_cmds,
                    http, echo >>

-----------------------------------------------------------------------------
(* Program constants                                                       *)

THRESHOLD == 10

DefaultSetpoint == 20

PatienceLimit == 200

PrioWiFi == 1

PrioSensor == 1

PrioHeater == 3

-----------------------------------------------------------------------------
(* Bounds of the model                                                     *)

\* In the specification of the whole program the data-ready pin stays high
\* for at most this many polls in a row; SpecSensor has no such bound.
MaxPolls == 1

\* enterStringWithEcho is called with sizes up to this one.
MaxSize == 3

-----------------------------------------------------------------------------
(* int16_t and its two bytes                                               *)

ToInt16(n) == ((n + 32768) % 65536) - 32768

Lo(v) == (v + 65536) % 256

Hi(v) == ((v + 65536) \div 256) % 256

FromBytes(lo, hi) == ToInt16(hi * 256 + lo)

-----------------------------------------------------------------------------
(* Values the environment supplies                                         *)

\* SPIFFS without /inputInt.txt, and with it.
NoFile == [present |-> FALSE, text |-> << >>]

FileOf(message) == [present |-> TRUE, text |-> message]

\* Texts an HTTP client sends as the inputInt parameter.
Messages == { <<"3", "0">>, <<"-", "5">>, <<"x">> }

\* Temperatures the thermocouple reports.
SampleVals == { 25 }

\* int16_t values at and next to the ends of the range and of the band.
Int16Edge == { -32768, -32767, -32759, -32758, -32757, -1, 0, 9, 10, 20,
               32757, 32766, 32767 }

\* What a Share holds before its first put (the specification leaves it
\* undefined; 0 is what zero-initialised static storage gives).
ShareInitVals == { 0, 30 }

\* Values a producer puts into each share.
SetpointVals == { 20, 30, 300 }

ReadingVals == { 5, 9, 10, 11, 25 }

ShareIds == { "desired_temp", "temp_reading" }

PutVals(s) == IF s = "desired_temp" THEN SetpointVals ELSE ReadingVals

-----------------------------------------------------------------------------
(* String::toInt, which is atol: leading blanks, an optional sign, then    *)
(* digits up to the first character that is not one; 0 when there is none. *)

DigitVal(c) ==
    CASE c = "0" -> 0 [] c = "1" -> 1 [] c = "2" -> 2 [] c = "3" -> 3
      [] c = "4" -> 4 [] c = "5" -> 5 [] c = "6" -> 6 [] c = "7" -> 7
      [] c = "8" -> 8 [] c = "9" -> 9 [] OTHER -> -1

RECURSIVE SkipBlanks(_)
SkipBlanks(str) ==
    IF str # << >> /\ Head(str) = " " THEN SkipBlanks(Tail(str)) ELSE str

RECURSIVE Digits(_, _)
Digits(str, acc) ==
    IF str = << >> \/ DigitVal(Head(str)) < 0
    THEN acc
    ELSE Digits(Tail(str), acc * 10 + DigitVal(Head(str)))

toInt(str) ==
    LET s1 == SkipBlanks(str)
    IN  IF s1 = << >> THEN 0
        ELSE IF Head(s1) = "-" THEN 0 - Digits(Tail(s1), 0)
        ELSE IF Head(s1) = "+" THEN Digits(Tail(s1), 0)
        ELSE Digits(s1, 0)

\* readFile: the content of the file, or the empty String when it cannot be
\* opened.
readFile == IF file.present THEN file.text ELSE << >>

-----------------------------------------------------------------------------
(* Share<int16_t>                                                          *)

ShareVal(s) == FromBytes(share[s].lo, share[s].hi)

NewShare(v) == [lo |-> Lo(v), hi |-> Hi(v), written |-> FALSE, lock |-> "free"]

LockFree(s) == share[s].lock = "free"

\* A put that takes the lock without waiting for it to be free.
PutLockBarges(s, v) ==
    /\ sys = "running"
    /\ p_pc[s] = "idle"
    /\ share' = [share EXCEPT ![s].lock = "producer"]
    /\ p_pc' = [p_pc EXCEPT ![s] = "lo"]
    /\ p_val' = [p_val EXCEPT ![s] = v]
    /\ UNCHANGED << sys, at_reset, file, committed, w_pc, yourInputInt, s_pc,
                    count, sample, h_pc, h_stage, setpoint, current,
                    heater_pin, sp_hist, scen, scen_cmds,
                    http, echo >>

\* Share::put by a producer task, one step at a time: acquire the lock,
\* overwrite the stored value (two bytes), mark it written, release.
PutLock(s, v) ==
    /\ sys = "running"
    /\ p_pc[s] = "idle"
    /\ LockFree(s)
    /\ share' = [share EXCEPT ![s].lock = "producer"]
    /\ p_pc' = [p_pc EXCEPT ![s] = "lo"]
    /\ p_val' = [p_val EXCEPT ![s] = v]
    /\ UNCHANGED << sys, at_reset, file, committed, w_pc, yourInputInt, s_pc,
                    count, sample, h_pc, h_stage, setpoint, current,
                    heater_pin, sp_hist, scen, scen_cmds,
                    http, echo >>

PutLo(s) ==
    /\ p_pc[s] = "lo"
    /\ share' = [share EXCEPT ![s].lo = Lo(p_val[s])]
    /\ p_pc' = [p_pc EXCEPT ![s] = "hi"]
    /\ UNCHANGED << sys, at_reset, file, committed, w_pc, yourInputInt, s_pc,
                    count, sample, h_pc, h_stage, setpoint, current,
                    heater_pin, p_val, sp_hist, scen, scen_cmds,
                    http, echo >>

PutHi(s) ==
    /\ p_pc[s] = "hi"
    /\ share' = [share EXCEPT ![s].hi = Hi(p_val[s]), ![s].written = TRUE]
    /\ p_pc' = [p_pc EXCEPT ![s] = "unlock"]
    /\ UNCHANGED << sys, at_reset, file, committed, w_pc, yourInputInt, s_pc,
                    count, sample, h_pc, h_stage, setpoint, current,
                    heater_pin, p_val, sp_hist, scen, scen_cmds,
                    http, echo >>

PutUnlock(s) ==
    /\ p_pc[s] = "unlock"
    /\ share' = [share EXCEPT ![s].lock = "free"]
    /\ p_pc' = [p_pc EXCEPT ![s] = "idle"]
    /\ committed' = [committed EXCEPT ![s] = p_val[s]]
    /\ p_val' = [p_val EXCEPT ![s] = 0]
    /\ sp_hist' = IF s = "desired_temp" THEN sp_hist \cup {p_val[s]} ELSE sp_hist
    /\ UNCHANGED << sys, at_reset, file, w_pc, yourInputInt, s_pc,
                    count, sample, h_pc, h_stage, setpoint, current,
                    heater_pin, scen, scen_cmds,
                    http, echo >>

Producer ==
    \E s \in ShareIds :
        \/ \E v \in PutVals(s) : PutLock(s, v)
        \/ PutLo(s)
        \/ PutHi(s)
        \/ PutUnlock(s)

-----------------------------------------------------------------------------
(* task_heater                                                             *)

ON == 1

OFF == 0

ScenarioA == << 5, 9, 10, 11, 25 >>

\* The comparison of the control loop.  Both int16_t operands are promoted
\* to int before the subtraction, so it is the comparison over the integers.
HeaterOnLe(cur, sp) == cur <= (sp - THRESHOLD)

HeaterOnNoBand(cur, sp) == cur < sp

\* The comparison with the subtraction done in int16_t.
HeaterOn16(cur, sp) == cur < ToInt16(sp - THRESHOLD)

HeaterOn(cur, sp) == cur < (sp - THRESHOLD)

\* Where the loop body starts after vTaskDelay.
LoopHeadSkipsSetpoint == "get_current"

LoopHead == "get_setpoint"

\* The local that get(s) fills, and the position after it.
GetPc(s) == IF s = "desired_temp" THEN "get_setpoint" ELSE "get_current"

AfterGet(s) == IF s = "desired_temp" THEN "get_current" ELSE "decide"

HeaterFrame == << sys, at_reset, file, committed, w_pc, yourInputInt, s_pc,
                  count, sample, heater_pin, p_pc, p_val, sp_hist, scen,
                  scen_cmds,
                    http, echo >>

\* Share::get as task_heater calls it: acquire the lock (waiting while it is
\* held), copy the two bytes out, release.  With waits = FALSE the lock is
\* taken without looking at it.
HeaterGetSteps(s, waits) ==
    /\ h_pc = GetPc(s)
    /\ \/ /\ h_stage = "lock"
          /\ waits => LockFree(s)
          /\ share' = [share EXCEPT ![s].lock = "task_heater"]
          /\ h_stage' = "lo"
          /\ UNCHANGED << h_pc, setpoint, current >>
       \/ /\ h_stage = "lo"
          /\ h_stage' = "hi"
          /\ IF s = "desired_temp"
             THEN /\ setpoint' = FromBytes(share[s].lo, Hi(setpoint))
                  /\ UNCHANGED current
             ELSE /\ current' = FromBytes(share[s].lo, Hi(current))
                  /\ UNCHANGED setpoint
          /\ UNCHANGED << h_pc, share >>
       \/ /\ h_stage = "hi"
          /\ h_stage' = "unlock"
          /\ IF s = "desired_temp"
             THEN /\ setpoint' = FromBytes(Lo(setpoint), share[s].hi)
                  /\ UNCHANGED current
             ELSE /\ current' = FromBytes(Lo(current), share[s].hi)
                  /\ UNCHANGED setpoint
          /\ UNCHANGED << h_pc, share >>
       \/ /\ h_stage = "unlock"
          /\ share' = [share EXCEPT ![s].lock = "free"]
          /\ h_pc' = AfterGet(s)
          /\ h_stage' = IF AfterGet(s) = "decide" THEN "-" ELSE "lock"
          /\ UNCHANGED << setpoint, current >>
    /\ UNCHANGED HeaterFrame

HeaterGetUnlocked(s) == HeaterGetSteps(s, FALSE)

\* A get that waits until the share has been written (a queue's get).
HeaterGetWaitsForData(s) ==
    /\ h_stage = "lock" => share[s].written
    /\ HeaterGetSteps(s, TRUE)

HeaterGet(s) == HeaterGetSteps(s, TRUE)

\* pinMode (HEATER_PIN, OUTPUT)
HeaterInit ==
    /\ h_pc = "init"
    /\ h_pc' = LoopHead
    /\ h_stage' = "lock"
    /\ sp_hist' = {committed["desired_temp"]}
    /\ UNCHANGED << sys, at_reset, file, share, committed, w_pc, yourInputInt,
                    s_pc, count, sample, setpoint, current, heater_pin, p_pc,
                    p_val, scen, scen_cmds,
                    http, echo >>

\* if (current < (setpoint - THRESHOLD)) digitalWrite (HEATER_PIN, 1);
\* else digitalWrite (HEATER_PIN, 0);
HeaterDecide ==
    /\ h_pc = "decide"
    /\ LET cmd == IF HeaterOn(current, setpoint) THEN ON ELSE OFF
       IN  /\ heater_pin' = cmd
           /\ IF setpoint = 20 /\ scen < Len(ScenarioA)
                 /\ current = ScenarioA[scen + 1]
              THEN /\ scen' = scen + 1
                   /\ scen_cmds' = Append(scen_cmds, cmd)
              ELSE IF setpoint = 20 /\ current = ScenarioA[1]
              THEN /\ scen' = 1
                   /\ scen_cmds' = << cmd >>
              ELSE /\ scen' = 0
                   /\ scen_cmds' = << >>
    /\ h_pc' = "delay"
    /\ UNCHANGED << sys, at_reset, file, share, committed, w_pc, yourInputInt,
                    s_pc, count, sample, h_stage, setpoint, current, p_pc,
                    p_val, sp_hist, http, echo >>

\* vTaskDelay (100) returns and the loop starts over.
HeaterWake ==
    /\ h_pc = "delay"
    /\ h_pc' = LoopHead
    /\ h_stage' = "lock"
    /\ sp_hist' = {committed["desired_temp"]}
    /\ UNCHANGED << sys, at_reset, file, share, committed, w_pc, yourInputInt,
                    s_pc, count, sample, setpoint, current, heater_pin, p_pc,
                    p_val, scen, scen_cmds,
                    http, echo >>

task_heater ==
    \/ HeaterInit
    \/ \E s \in ShareIds : HeaterGet(s)
    \/ HeaterDecide
    \/ HeaterWake

-----------------------------------------------------------------------------
(* task_sensor                                                             *)

SensorFrame == << sys, at_reset, file, share, committed, w_pc, yourInputInt,
                  h_pc, h_stage, setpoint, current, heater_pin, p_pc, p_val,
                  sp_hist, scen, scen_cmds,
                    http, echo >>

\* therm1.begin (): on failure the task stays in while (1) delay (10).
SensorBegin(ok) ==
    /\ s_pc = "begin"
    /\ s_pc' = IF ok THEN "poll" ELSE "halted"
    /\ UNCHANGED << count, sample >>
    /\ UNCHANGED SensorFrame

\* A failed begin that is only reported: the task goes on to its loop.
SensorHaltedFallsThrough ==
    /\ s_pc = "halted"
    /\ s_pc' = "poll"
    /\ UNCHANGED << count, sample >>
    /\ UNCHANGED SensorFrame

SensorHalted ==
    /\ s_pc = "halted"
    /\ UNCHANGED << s_pc, count, sample >>
    /\ UNCHANGED SensorFrame

\* The poll loop without count = 0 in the body of its if.
SensorPollNoReset(drdy_high, temp) ==
    /\ s_pc = "poll"
    /\ IF drdy_high
       THEN /\ count' = count + 1
            /\ UNCHANGED << s_pc, sample >>
       ELSE /\ sample' = temp
            /\ s_pc' = "delay"
            /\ UNCHANGED count
    /\ UNCHANGED SensorFrame

\* One evaluation of while (digitalRead (DRDY_PIN)) and, when the pin is
\* high, of the body: if (count++ > 200) { count = 0; print "." }.  When the
\* pin is low the loop ends and the temperature is read and printed.
SensorPoll(drdy_high, temp) ==
    /\ s_pc = "poll"
    /\ IF drdy_high
       THEN /\ count' = IF count > PatienceLimit THEN 0 ELSE count + 1
            /\ UNCHANGED << s_pc, sample >>
       ELSE /\ sample' = temp
            /\ s_pc' = "delay"
            /\ UNCHANGED count
    /\ UNCHANGED SensorFrame

\* vTaskDelay (500) returns; int count = 0 at the head of the loop.
SensorWake ==
    /\ s_pc = "delay"
    /\ s_pc' = "poll"
    /\ count' = 0
    /\ UNCHANGED sample
    /\ UNCHANGED SensorFrame

task_sensor ==
    \/ \E ok \in BOOLEAN : SensorBegin(ok)
    \/ SensorHalted
    \/ \E d \in BOOLEAN, v \in SampleVals : SensorPoll(d, v)
    \/ SensorWake

\* task_sensor with the data-ready pin going low within MaxPolls polls.
SensorBounded ==
    \/ \E ok \in BOOLEAN : SensorBegin(ok)
    \/ SensorHalted
    \/ \E d \in BOOLEAN, v \in SampleVals :
          /\ d => count < MaxPolls
          /\ SensorPoll(d, v)
    \/ SensorWake

-----------------------------------------------------------------------------
(* task_WiFi and the /get handler of its web server                        *)

WiFiFrame == << sys, at_reset, file, share, committed, s_pc, count, sample,
                h_pc, h_stage, setpoint, current, heater_pin, p_pc, p_val,
                sp_hist, scen, scen_cmds,
                    http, echo >>

\* enterStringWithEcho (Serial, essid_buf, 34) returns.
WiFiEnterSSID ==
    /\ w_pc = "enter_ssid"
    /\ w_pc' = "enter_pw"
    /\ UNCHANGED yourInputInt
    /\ UNCHANGED WiFiFrame

\* enterStringWithEcho (Serial, pw_buf, 34) returns; WiFi.begin.
WiFiEnterPassword ==
    /\ w_pc = "enter_pw"
    /\ w_pc' = "connecting"
    /\ UNCHANGED yourInputInt
    /\ UNCHANGED WiFiFrame

\* while (WiFi.status () != WL_CONNECTED) delay (1000); then the handlers
\* are installed and server.begin () is called.
WiFiConnect(connected) ==
    /\ w_pc = "connecting"
    /\ w_pc' = IF connected THEN "read" ELSE "connecting"
    /\ UNCHANGED yourInputInt
    /\ UNCHANGED WiFiFrame

\* The body of the for (;;) loop: the file is read and printed.  The put
\* into desired_temp is commented out in the source.
WiFiLoop ==
    /\ w_pc = "read"
    /\ yourInputInt' = toInt(readFile)
    /\ w_pc' = "delay"
    /\ UNCHANGED WiFiFrame

\* vTaskDelay (5000) returns.
WiFiWake ==
    /\ w_pc = "delay"
    /\ w_pc' = "read"
    /\ UNCHANGED yourInputInt
    /\ UNCHANGED WiFiFrame

task_WiFi ==
    \/ WiFiEnterSSID
    \/ WiFiEnterPassword
    \/ \E c \in BOOLEAN : WiFiConnect(c)
    \/ WiFiLoop
    \/ WiFiWake

\* What the handler of /get has last put out: whether the request carried
\* inputInt, the text it printed and sent back, and the diagnostic of
\* writeFile ("-" when it printed none).
NoRequest == [param |-> FALSE, value |-> << >>, diag |-> "-"]

\* inputMessage = "No message sent"
NoMessageSent == << "No message sent" >>

\* writeFile with the file opened in append mode.
writeFileAppends(message, opened, printed) ==
    IF ~opened THEN file
    ELSE IF printed THEN FileOf(file.text \o message)
    ELSE file

\* writeFile: fs.open (path, "w") empties the file, file.print puts the
\* message into it.  When the file cannot be opened it is left as it was;
\* when the print fails it is left empty.
writeFile(message, opened, printed) ==
    IF ~opened THEN file
    ELSE IF printed THEN FileOf(message)
    ELSE FileOf(<< >>)

\* The line writeFile prints on Serial.
writeFileDiag(opened, printed) ==
    IF ~opened THEN "failed to open file for writing"
    ELSE IF printed THEN "-"
    ELSE "write failed"

\* GET /get, served once server.begin () has run.
GetHandler(hasParam, message, opened, printed) ==
    /\ w_pc \in {"read", "delay"}
    /\ IF hasParam
       THEN /\ file' = writeFile(message, opened, printed)
            /\ http' = [param |-> TRUE, value |-> message,
                        diag |-> writeFileDiag(opened, printed)]
       ELSE /\ file' = file
            /\ http' = [param |-> FALSE, value |-> NoMessageSent,
                        diag |-> "-"]
    /\ UNCHANGED << sys, at_reset, share, committed, w_pc, yourInputInt, s_pc,
                    count, sample, h_pc, h_stage, setpoint, current,
                    heater_pin, p_pc, p_val, sp_hist, scen, scen_cmds, echo >>

-----------------------------------------------------------------------------
(* enterStringWithEcho                                                     *)

\* The characters stream.read () delivers: ordinary ones, backspace,
\* carriage return, line feed; "none" stands for a result <= 0.
EchoChars == { "a", "b", "BS", "CR", "LF", "none" }

\* The first size elements of the caller's buffer, not yet written.
EchoBuffer(size) == [i \in 0 .. (size - 1) |-> "?"]

\* enterStringWithEcho not running.
EchoIdle == [size |-> 0, count |-> 0, buffer |-> EchoBuffer(0),
             pc |-> "idle", stored |-> {}]

EchoFrame == << sys, at_reset, file, share, committed, w_pc, yourInputInt,
                s_pc, count, sample, h_pc, h_stage, setpoint, current,
                heater_pin, p_pc, p_val, sp_hist, scen, scen_cmds, http >>

\* The call: count = 0, nothing stored yet.
EchoCall(size) ==
    /\ w_pc = "enter_ssid"
    /\ echo.pc \in {"idle", "returned"}
    /\ echo' = [size |-> size, count |-> 0, buffer |-> EchoBuffer(size),
                pc |-> "reading", stored |-> {}]
    /\ UNCHANGED EchoFrame

\* buffer[i] = c: inside the first size elements the model keeps the
\* character; a store outside them is only recorded in stored.
EchoStore(i, c) ==
    [echo EXCEPT !.buffer = IF i \in DOMAIN echo.buffer
                              THEN [echo.buffer EXCEPT ![i] = c]
                              ELSE echo.buffer,
                 !.stored = echo.stored \cup {i}]

\* count -= 2 on a uint8_t.
BackUp(c) == (c + 256 - 2) % 256

\* One pass of the while (true) loop with the character ch read.  A store
\* outside the buffer is undefined behaviour: the function may still
\* return or the program may be lost.
EchoChar(ch) ==
    /\ echo.pc = "reading"
    /\ IF ch = "none"
       THEN echo' = echo
       ELSE IF ch = "BS" /\ echo.count # 0
       THEN echo' = [echo EXCEPT !.count = BackUp(echo.count)]
       ELSE IF ch = "CR"
       THEN echo' = echo
       ELSE IF ch = "LF" \/ echo.count >= echo.size - 1
       THEN \E outcome \in IF echo.count \in DOMAIN echo.buffer
                             THEN {"returned"}
                             ELSE {"returned", "lost"} :
               echo' = [EchoStore(echo.count, "NUL") EXCEPT !.pc = outcome]
       ELSE echo' = [EchoStore(echo.count, ch)
                        EXCEPT !.count = (echo.count + 1) % 256]
    /\ UNCHANGED EchoFrame

-----------------------------------------------------------------------------
(* setup, and a reset of the board                                         *)

\* setup without the return after a failed mount.
setupNoReturn(mounted) ==
    /\ sys = "boot"
    /\ sys' = IF mounted THEN "running" ELSE "aborted"
    /\ w_pc' = "enter_ssid"
    /\ s_pc' = "begin"
    /\ h_pc' = "init"
    /\ UNCHANGED << at_reset, file, share, committed, yourInputInt, count,
                    sample, h_stage, setpoint, current, heater_pin, p_pc,
                    p_val, sp_hist, scen, scen_cmds,
                    http, echo >>

\* setup that switches the heater on before it creates the tasks.
setupTestsHeater(mounted) ==
    /\ sys = "boot"
    /\ IF mounted
       THEN /\ sys' = "running"
            /\ w_pc' = "enter_ssid"
            /\ s_pc' = "begin"
            /\ h_pc' = "init"
            /\ heater_pin' = ON
       ELSE /\ sys' = "aborted"
            /\ UNCHANGED << w_pc, s_pc, h_pc, heater_pin >>
    /\ UNCHANGED << at_reset, file, share, committed, yourInputInt, count,
                    sample, h_stage, setpoint, current, p_pc,
                    p_val, sp_hist, scen, scen_cmds,
                    http, echo >>

\* if (!SPIFFS.begin (true)) return; otherwise the three tasks are created.
setup(mounted) ==
    /\ sys = "boot"
    /\ IF mounted
       THEN /\ sys' = "running"
            /\ w_pc' = "enter_ssid"
            /\ s_pc' = "begin"
            /\ h_pc' = "init"
       ELSE /\ sys' = "aborted"
            /\ UNCHANGED << w_pc, s_pc, h_pc >>
    /\ UNCHANGED << at_reset, file, share, committed, yourInputInt, count,
                    sample, h_stage, setpoint, current, heater_pin, p_pc,
                    p_val, sp_hist, scen, scen_cmds,
                    http, echo >>

\* Power-off or hardware reset: RAM and the tasks are gone, SPIFFS stays.
Reset ==
    /\ sys # "boot"
    /\ sys' = "boot"
    /\ at_reset' = file
    /\ \E d, r \in ShareInitVals :
          /\ share' = [s \in ShareIds |->
                          NewShare(IF s = "desired_temp" THEN d ELSE r)]
          /\ committed' = [s \in ShareIds |->
                              IF s = "desired_temp" THEN d ELSE r]
    /\ w_pc' = "none"
    /\ yourInputInt' = 0
    /\ s_pc' = "none"
    /\ count' = 0
    /\ sample' = 0
    /\ h_pc' = "none"
    /\ h_stage' = "-"
    /\ setpoint' = DefaultSetpoint
    /\ current' = 0
    /\ heater_pin' = OFF
    /\ sp_hist' = {}
    /\ scen' = 0
    /\ scen_cmds' = << >>
    /\ http' = NoRequest
    /\ UNCHANGED << file, p_pc, p_val, echo >>

-----------------------------------------------------------------------------
(* Specifications                                                          *)

InitWith(contents) ==
    /\ at_reset = NoFile
    /\ file = NoFile
    /\ \E d, r \in contents :
          /\ share = [s \in ShareIds |->
                         NewShare(IF s = "desired_temp" THEN d ELSE r)]
          /\ committed = [s \in ShareIds |->
                             IF s = "desired_temp" THEN d ELSE r]
    /\ yourInputInt = 0
    /\ count = 0
    /\ sample = 0
    /\ h_stage = "-"
    /\ setpoint = DefaultSetpoint
    /\ current = 0
    /\ heater_pin = OFF
    /\ p_pc = [s \in ShareIds |-> "idle"]
    /\ p_val = [s \in ShareIds |-> 0]
    /\ sp_hist = {}
    /\ scen = 0
    /\ scen_cmds = << >>
    /\ http = NoRequest

InitProgram == InitWith(ShareInitVals)

InitCommon ==
    /\ InitProgram
    /\ echo = EchoIdle

\* The program as written: power-on, before setup.
Init ==
    /\ InitCommon
    /\ sys = "boot"
    /\ w_pc = "none"
    /\ s_pc = "none"
    /\ h_pc = "none"

Next ==
    \/ \E m \in BOOLEAN : setup(m)
    \/ Reset
    \/ task_WiFi
    \/ \E hp, op, pr \in BOOLEAN, msg \in Messages :
          GetHandler(hp, msg, op, pr)
    \/ SensorBounded
    \/ task_heater

Spec == Init /\ [][Next]_vars

\* The program with the scheduler's guarantee for task_heater, the task of
\* the highest priority (3 against 1 and 1): whenever it can take a step it
\* eventually does.
SpecLive == Spec /\ WF_vars(task_heater)

\* task_heater alone, with a producer task putting into each share.
InitControl ==
    /\ InitCommon
    /\ sys = "running"
    /\ w_pc = "none"
    /\ s_pc = "none"
    /\ h_pc = "init"

NextControl ==
    \/ task_heater
    \/ Producer

SpecControl == InitControl /\ [][NextControl]_vars

\* task_sensor alone, with the data-ready pin free to stay high for ever.
InitSensor ==
    /\ InitCommon
    /\ sys = "running"
    /\ w_pc = "none"
    /\ s_pc = "begin"
    /\ h_pc = "none"

NextSensor == task_sensor

SpecSensor == InitSensor /\ [][NextSensor]_vars

\* enterStringWithEcho alone, called by task_WiFi with any size and fed any
\* characters.
InitEcho ==
    /\ InitWith(ShareInitVals)
    /\ echo = EchoIdle
    /\ sys = "running"
    /\ w_pc = "enter_ssid"
    /\ s_pc = "none"
    /\ h_pc = "none"

NextEcho ==
    \/ \E size \in 1 .. MaxSize : EchoCall(size)
    \/ \E ch \in EchoChars : EchoChar(ch)

SpecEcho == InitEcho /\ [][NextEcho]_vars

\* task_heater alone, the two shares holding any pair of int16_t edge
\* values.
InitDecide ==
    /\ InitWith(Int16Edge)
    /\ echo = EchoIdle
    /\ sys = "running"
    /\ w_pc = "none"
    /\ s_pc = "none"
    /\ h_pc = "init"

NextDecide == task_heater

SpecDecide == InitDecide /\ [][NextDecide]_vars

-----------------------------------------------------------------------------
(* Properties                                                              *)

Cmd(b) == IF b THEN ON ELSE OFF

Local(s) == IF s = "desired_temp" THEN setpoint ELSE current

Decided == h_pc = "delay"

\* C1: whenever task_heater has just commanded the heater (it is in its
\* vTaskDelay), the command is ON exactly when the reading it got in this
\* cycle is below the setpoint it got minus THRESHOLD, and OFF otherwise;
\* nothing else (such as the previous command) enters.
C1_OnIffBelowBand ==
    Decided => heater_pin = Cmd(current < setpoint - THRESHOLD)

\* A cycle that read the reading exactly at setpoint - THRESHOLD (10 against
\* 20) and commanded OFF.
C1_Witness ==
    /\ Decided
    /\ share["desired_temp"].written /\ share["temp_reading"].written
    /\ setpoint = 20 /\ current = 10 /\ heater_pin = OFF

\* C2 as claimed: five successive cycles that see setpoint 20 and the
\* readings 5, 9, 10, 11, 25 command ON, ON, ON, OFF, OFF.
C2_ScenarioA_Claimed ==
    scen = Len(ScenarioA) => scen_cmds = << ON, ON, ON, OFF, OFF >>

\* C2 amended: five successive cycles that see setpoint 20 and the readings
\* 5, 9, 10, 11, 25 command ON, ON, OFF, OFF, OFF (10 is not below 20 - 10).
C2_ScenarioA_Amended ==
    scen = Len(ScenarioA) => scen_cmds = << ON, ON, OFF, OFF, OFF >>

\* The five cycles of Scenario A have just been run.
C2_Witness ==
    /\ scen = Len(ScenarioA)
    /\ Decided /\ setpoint = 20 /\ current = 25

\* C3: while temp_reading has never been written, every command of
\* task_heater is OFF, whatever the setpoint.
C3_SafeDefault ==
    (Decided /\ ~share["temp_reading"].written) => heater_pin = OFF

\* C4: while desired_temp has never been written, task_heater decides
\* against the compiled-in setpoint 20, i.e. compares the reading with
\* 20 - THRESHOLD.
C4_DefaultSetpoint ==
    (Decided /\ ~share["desired_temp"].written)
        => heater_pin = Cmd(current < DefaultSetpoint - THRESHOLD)

\* C5: a get returns the value of the last put that completed (or what the
\* share held at the start when there was none), byte for byte, however the
\* producer's put is interleaved with it; and a share nobody is writing
\* holds that value.
C5_ReadsAreWhole ==
    \A s \in ShareIds :
        /\ (h_pc = GetPc(s) /\ h_stage = "unlock") => Local(s) = committed[s]
        /\ p_pc[s] = "idle" => ShareVal(s) = committed[s]

\* A get of desired_temp that returned 300 in a cycle that began with 20 in
\* the share and during which the put of 300 over it completed.
C5_Witness ==
    /\ h_pc = "get_setpoint" /\ h_stage = "unlock"
    /\ setpoint = 300
    /\ sp_hist = {20, 300}

\* C6: once task_WiFi has gone through its loop body with a setpoint
\* persisted by the /get handler, desired_temp holds that setpoint.
C6_IngestPublishes ==
    (w_pc = "delay" /\ file # NoFile)
        => /\ share["desired_temp"].written
           /\ ShareVal("desired_temp") = ToInt16(yourInputInt)

\* C7: once task_sensor has taken a sample and gone into its delay,
\* temp_reading holds that sample.
C7_SamplePublished ==
    s_pc = "delay"
        => /\ share["temp_reading"].written
           /\ ShareVal("temp_reading") = sample

\* C8: the setpoint a control decision uses is the one desired_temp held when
\* the cycle began (the last completed put) or one put since: never an
\* older one.
C8_Fresh ==
    Decided => setpoint \in sp_hist

\* A decision on 300, whose put completed before the cycle began.
C8_Witness ==
    /\ Decided
    /\ share["desired_temp"].written
    /\ setpoint = 300 /\ sp_hist = {300}

\* Once created, task_heater always has a step it can take, whatever the
\* other tasks are doing, and nobody else ever holds a share's lock.
HeaterNeverBlocked ==
    /\ h_pc # "none" => ENABLED task_heater
    /\ \A s \in ShareIds : share[s].lock \in {"free", "task_heater"}

\* C9: task_heater is never blocked by task_sensor or task_WiFi (its only
\* waits are its own delay and the acquisition of a share's lock, which
\* nobody else holds), and every control cycle it starts reaches its
\* heater command, unless the board is reset first.
C9_Live ==
    /\ []HeaterNeverBlocked
    /\ [](h_pc \in {"init", "get_setpoint", "get_current", "decide"}
            => <>(Decided \/ h_pc = "none"))

\* task_heater has decided while task_sensor is halted after a failed
\* begin and task_WiFi still waits for the SSID on the serial line.
C9_Witness ==
    /\ Decided
    /\ s_pc = "halted"
    /\ w_pc = "enter_ssid"

\* C10: after a reset that found a persisted setpoint, once task_WiFi has
\* gone through its loop body with that file, desired_temp holds the
\* setpoint and the decisions of task_heater use it.
C10_RestoredAfterReset ==
    (at_reset # NoFile /\ file = at_reset /\ w_pc = "delay")
        => /\ ShareVal("desired_temp") = ToInt16(yourInputInt)
           /\ Decided => setpoint = ToInt16(yourInputInt)

\* C11: after a failed mount of SPIFFS none of the three tasks exists and
\* the heater output has not been driven; after a successful one all three
\* exist.
C11_MountDecides ==
    /\ sys = "aborted" => /\ w_pc = "none" /\ s_pc = "none" /\ h_pc = "none"
                          /\ heater_pin = OFF
    /\ sys = "running" => /\ w_pc # "none" /\ s_pc # "none" /\ h_pc # "none"

\* A boot whose mount failed, after an earlier run that persisted a
\* setpoint.
C11_Witness ==
    /\ sys = "aborted"
    /\ at_reset # NoFile

\* C12: once therm1.begin has failed, task_sensor stays halted until the
\* board is reset: it takes no sample and temp_reading is not written; and
\* task_heater and task_WiFi can still take their steps.
C12_HaltIsFinal ==
    /\ [](s_pc = "halted" => (ENABLED task_heater /\ ENABLED task_WiFi))
    /\ [][s_pc = "halted" =>
            \/ sys' = "boot"
            \/ /\ s_pc' = "halted"
               /\ sample' = sample
               /\ share'["temp_reading"].written
                     = share["temp_reading"].written
               /\ committed'["temp_reading"] = committed["temp_reading"]]_vars

\* task_sensor is halted while task_heater has decided and task_WiFi has
\* gone through its loop.
C12_Witness ==
    /\ s_pc = "halted"
    /\ Decided
    /\ w_pc = "delay"

InCriticalSection(s) ==
    { t \in {"task_heater", "producer"} :
        \/ t = "task_heater" /\ h_pc = GetPc(s) /\ h_stage \in {"lo", "hi", "unlock"}
        \/ t = "producer" /\ p_pc[s] \in {"lo", "hi", "unlock"} }

\* C13: for each share, at most one task is inside a get or put of it.
C13_MutualExclusion ==
    \A s \in ShareIds : Cardinality(InCriticalSection(s)) <= 1

\* task_heater is inside get of desired_temp while the producer of
\* desired_temp is idle (kept out or not trying) and the producer of
\* temp_reading is inside its put.
C13_Witness ==
    /\ InCriticalSection("desired_temp") = {"task_heater"}
    /\ InCriticalSection("temp_reading") = {"producer"}
    /\ share["desired_temp"].written

\* task_sensor is inside delay or vTaskDelay, its only calls that give up
\* the processor.
SensorSuspended == s_pc \in {"halted", "delay"}

\* C14: between two successive evaluations of the poll loop's condition
\* task_sensor gives up the processor (every suspension is a position of
\* the task, so no step leads from one poll straight to the next).
C14_PollYields ==
    [][(s_pc = "poll" /\ s_pc' = "poll") => SensorSuspended']_vars

\* C15: when the patience counter has run out and the pin is still high,
\* task_sensor leaves the wait.
C15_BoundedWait ==
    [][(s_pc = "poll" /\ count > PatienceLimit) => s_pc' # "poll"]_vars

\* C16: the patience counter stays within 0..202; a poll that finds the
\* pin high either counts one up or, as the 202nd in a row, emits the
\* diagnostic and sets the counter to 0; and every sampling period starts
\* with the counter at 0.
C16_Patience ==
    /\ [](count \in 0 .. (PatienceLimit + 2))
    /\ [][(s_pc = "poll" /\ s_pc' = "poll") =>
            \/ count' = count + 1 /\ count' < PatienceLimit + 2
            \/ count' = 0 /\ count = PatienceLimit + 1]_vars
    /\ [][(s_pc = "delay" /\ s_pc' = "poll") => count' = 0]_vars

\* The 201st poll in a row has found the pin high: the next one emits the
\* diagnostic.
C16_Witness ==
    /\ s_pc = "poll"
    /\ count = PatienceLimit + 1

\* C17: the level of HEATER_PIN changes only in the digitalWrite of
\* task_heater (or by a reset of the board), and task_heater enters its
\* delay only from that digitalWrite: once per cycle.
C17_HeaterOwnsPin ==
    /\ [][heater_pin' # heater_pin =>
            \/ h_pc = "decide" /\ h_pc' = "delay"
            \/ sys # "boot" /\ sys' = "boot"]_vars
    /\ [][(h_pc' = "delay" /\ h_pc # "delay") => h_pc = "decide"]_vars
    /\ [][h_pc = "decide" => (h_pc' \in {"decide", "delay", "none"})]_vars

\* The heater has been switched on while all three tasks run.
C17_Witness ==
    /\ heater_pin = ON
    /\ s_pc = "delay"
    /\ w_pc = "delay"

C19_EchoBound ==
    echo.pc # "idle" =>
        /\ echo.count \in 0 .. (echo.size - 1)
        /\ echo.stored \subseteq 0 .. (echo.size - 1)
        /\ Cardinality({i \in DOMAIN echo.buffer :
                          echo.buffer[i] \notin {"?", "NUL"}})
              <= echo.size - 1
        /\ echo.pc = "returned" =>
              /\ echo.count < echo.size
              /\ echo.buffer[echo.count] = "NUL"

\* C20: for every int16_t setpoint and reading the command is ON exactly
\* when reading + THRESHOLD < setpoint over the integers; in particular a
\* setpoint within THRESHOLD of -32768 commands OFF whatever the reading.
C20_NoWrap ==
    Decided =>
        /\ setpoint \in -32768 .. 32767
        /\ current \in -32768 .. 32767
        /\ (heater_pin = ON) <=> (current + THRESHOLD < setpoint)
        /\ setpoint - THRESHOLD < -32768 => heater_pin = OFF

\* The setpoint is -32768 and the reading 32757: in 16 bits the difference
\* would be 32758 and the heater on.
C20_Witness ==
    /\ Decided
    /\ setpoint = -32768
    /\ current = 32757
    /\ heater_pin = OFF
    /\ share["desired_temp"].lo = 0
    /\ share["desired_temp"].hi = 128

\* C21: while enterStringWithEcho reads, count changes only by a store
\* (one up) or by a backspace with something stored, which takes it
\* exactly one down, so that the next store goes over the last character.
C21_BackspaceBacksUpOne ==
    [][(/\ echo.pc = "reading"
        /\ echo'.pc = "reading"
        /\ echo'.count # echo.count
        /\ echo'.count # echo.count + 1)
       => echo'.count = echo.count - 1]_vars

=============================================================================
